---- MODULE Spec2Model ----
(***************************************************************************)
(* Model of the tabular-structure extraction engine of claryai:            *)
(* TableTransformer of src/src/table_parser.py (the older revision) and of *)
(* src/src/table_parser_improved.py (the revision main.py prefers).        *)
(*                                                                         *)
(* Text is a TLA+ string; Ch(s, i) is its i-th character (1-based), so a   *)
(* Python offset k is the TLA+ index k + 1.  A Python dict is a record     *)
(* (a function on its keys), a Python list a sequence.                     *)
(***************************************************************************)
EXTENDS Integers, Sequences, FiniteSets, TLC

VARIABLES block, pc, version, invoked, result, row_src, candidates

\* the document pipeline of main.py: the type of the partitioned element
\* that holds the block, and the element emitted for it
VARIABLES el_type, element

\* callers of the single module-level TableTransformer: the storage that
\* holds each running call's argument (location 0 is the instance, location
\* t the frame of thread t), each thread's position, the call it makes and
\* the value it last got back; one watched call and its first return value
VARIABLES frames, thread_pc, thread_call, returned, watched, first_result, ncalls

\* the task service of main.py, redis_client.py and worker.py: the SQLite
\* tables tasks and batches and the columns the tasks table was created
\* with, the Redis list queue:document_processing and the Redis key
\* processing:document_processing, the worker processes, the background
\* tasks of the API server, the last answer of GET /status, and the
\* deployment (is Redis reachable, are worker processes running)
VARIABLES schema, tasks, batches, queue, processing_key, workers, background,
          reply, redis_up, worker_running

\* the worker pool of distributed.py: the task store of the TaskManager the
\* workers share, and each worker_process loop's position with the task it
\* took from its list of pending tasks
VARIABLES local_tasks, pool

engine_vars == <<block, pc, version, invoked, result, row_src, candidates>>
pipeline_vars == <<el_type, element>>
calls_vars == <<frames, thread_pc, thread_call, returned, watched, first_result, ncalls>>
service_vars == <<schema, tasks, batches, queue, processing_key, workers, background,
                  reply, redis_up, worker_running>>

pool_vars == <<local_tasks, pool>>

\* everything outside the extraction engine proper
outside_engine == <<pipeline_vars, calls_vars, service_vars, pool_vars>>
not_pipeline == <<calls_vars, service_vars, pool_vars>>
not_calls == <<engine_vars, pipeline_vars, service_vars, pool_vars>>
not_service == <<engine_vars, pipeline_vars, calls_vars, pool_vars>>
not_pool == <<engine_vars, pipeline_vars, calls_vars, service_vars>>

vars == <<engine_vars, outside_engine>>

----------------------------------------------------------------------------
(* Bounds of the input space.                                              *)

\* longest text enumerated character by character
MaxLen == 4
\* most lines in a block assembled from CandidateLines
MaxLines == 3
\* most <tr> rows in the body of a markup fragment
MaxRows == 2
\* most data lines in a rendered markdown or ledger table
MaxDataRows == 2

----------------------------------------------------------------------------
(* Python string and list primitives the parsers are written with.         *)

Min(S) == CHOOSE x \in S : \A y \in S : x <= y
Max(S) == CHOOSE x \in S : \A y \in S : x >= y
Range(f) == {f[i] : i \in DOMAIN f}

Ch(s, i) == SubSeq(s, i, i)

\* the characters str.strip() and the regex class \s treat as whitespace
Whitespace == {" ", "\t", "\n", "\r"}

\* s[a:b] with Python's clipping (a, b are 0-based offsets, 0 <= a)
Slice(s, a, b) ==
    LET e == IF b < Len(s) THEN b ELSE Len(s)
    IN  IF a < e THEN SubSeq(s, a + 1, e) ELSE ""

\* s[a:]
SliceFrom(s, a) == Slice(s, a, Len(s))

\* s.strip()
Strip(s) ==
    LET keep == {i \in 1..Len(s) : Ch(s, i) \notin Whitespace}
    IN  IF keep = {} THEN "" ELSE SubSeq(s, Min(keep), Max(keep))

\* sub in s
Contains(s, sub) ==
    \E i \in 1..(Len(s) - Len(sub) + 1) : SubSeq(s, i, i + Len(sub) - 1) = sub

\* s.startswith(p)
StartsWith(s, p) == Len(s) >= Len(p) /\ SubSeq(s, 1, Len(p)) = p

\* s.count(c) for a single character c
Count(s, c) == Cardinality({i \in 1..Len(s) : Ch(s, i) = c})

\* all(c in chars for c in s)
AllIn(s, chars) == \A i \in 1..Len(s) : Ch(s, i) \in chars

RECURSIVE SplitFrom(_, _, _)
SplitFrom(s, c, i) ==
    LET hits == {j \in i..Len(s) : Ch(s, j) = c}
    IN  IF hits = {}
        THEN <<Slice(s, i - 1, Len(s))>>
        ELSE <<Slice(s, i - 1, Min(hits) - 1)>> \o SplitFrom(s, c, Min(hits) + 1)

\* s.split(c) for a single character c
Split(s, c) == SplitFrom(s, c, 1)

RECURSIVE ReSplitFrom(_, _)
ReSplitFrom(s, i) ==
    LET starts == {j \in i..(Len(s) - 1) :
                      Ch(s, j) \in Whitespace /\ Ch(s, j + 1) \in Whitespace}
    IN  IF starts = {}
        THEN <<Slice(s, i - 1, Len(s))>>
        ELSE LET j == Min(starts)
                 e == Max({k \in j..Len(s) :
                             \A m \in j..k : Ch(s, m) \in Whitespace})
             IN  <<Slice(s, i - 1, j - 1)>> \o ReSplitFrom(s, e + 1)

\* re.split(r'\s{2,}', s): cut at every maximal run of two or more
\* whitespace characters
ReSplit2(s) == ReSplitFrom(s, 1)

\* [f(x) for x in seq if p(x)] is SelectSeq followed by a map
Map(f(_), seq) == [i \in 1..Len(seq) |-> f(seq[i])]

\* any(cells): some cell is a non-empty string
AnyTruthy(cells) == \E i \in 1..Len(cells) : cells[i] # ""

\* [''] * k
Blanks(k) == [i \in 1..k |-> ""]

\* the filter without the strip: `if line`
NonBlank_unstripped(line) == line # ""

\* lines of a block that are not blank, as the parsers keep them
NonBlank(line) == Strip(line) # ""
NonBlankLines(text) == SelectSeq(Split(text, "\n"), NonBlank)

----------------------------------------------------------------------------
(* pandas, as far as the parsers use it.  A DataFrame is its column labels *)
(* and its rows; an exception is the record [raise |-> <message>].         *)

\* the value pandas stores where a ragged row has no cell
NoneCell == "<None>"

IsRaise(r) == "raise" \in DOMAIN r

Width(rows) == IF rows = <<>> THEN 0 ELSE Max({Len(rows[i]) : i \in 1..Len(rows)})

PadNone(row, n) == [j \in 1..n |-> IF j <= Len(row) THEN row[j] ELSE NoneCell]

\* pd.DataFrame(rows, columns=headers)
DataFrameWithColumns(rows, headers) ==
    IF rows # <<>> /\ Width(rows) # Len(headers)
    THEN [raise |-> "columns passed do not match the data"]
    ELSE [columns |-> headers,
          rows |-> [i \in 1..Len(rows) |-> PadNone(rows[i], Len(headers))]]

\* pd.DataFrame(rows): columns are labelled 0 .. width-1
DataFrameDefault(rows) ==
    [columns |-> [j \in 1..Width(rows) |-> j - 1],
     rows |-> [i \in 1..Len(rows) |-> PadNone(rows[i], Width(rows))]]

\* dict(zip(columns, row)): a repeated label keeps its last value
ZipDict(columns, row) ==
    [h \in Range(columns) |->
        row[Max({j \in 1..Len(columns) : columns[j] = h})]]

\* df.to_dict(orient='records'): one dict per tuple of itertuples(), which
\* zips the column arrays and so yields nothing for a frame without columns
ToDictRecords(df) ==
    IF Len(df.columns) = 0
    THEN <<>>
    ELSE [i \in 1..Len(df.rows) |-> ZipDict(df.columns, df.rows[i])]

----------------------------------------------------------------------------
(* The values the parsers return.                                          *)

NoDataResult(headers) ==
    [type |-> "Table", data |-> <<>>, headers |-> headers,
     error |-> "No data found in table"]

EmptyTableResult ==
    [type |-> "Table", data |-> <<>>, headers |-> <<>>, error |-> "Empty table"]

\* the two counts taken from the wrong axes of the frame
TableResult_swapped(headers, df) ==
    [type |-> "Table", headers |-> headers, data |-> ToDictRecords(df),
     num_rows |-> Len(df.columns), num_cols |-> Len(df.rows)]

TableResult(headers, df) ==
    [type |-> "Table", headers |-> headers, data |-> ToDictRecords(df),
     num_rows |-> Len(df.rows), num_cols |-> Len(df.columns)]

\* What a parser hands back: ret is the value it returns (or the exception
\* it raises), cand the cell lists of its candidate data rows before they
\* are padded or truncated, src the line (or <tr> position) behind each
\* record of ret.data.
Parsed(ret, src, cand) == [ret |-> ret, src |-> src, cand |-> cand]

\* a table that also reports an error when a row had to be padded or cut
BuildTable_flagging(headers, rows, src, cand) ==
    IF headers # <<>> /\ rows # <<>>
    THEN LET df == DataFrameWithColumns(rows, headers)
             t == TableResult(headers, df)
         IN  IF \E i \in 1..Len(cand) : Len(cand[i]) # Len(headers)
             THEN Parsed([type |-> t.type, headers |-> t.headers, data |-> t.data,
                          num_rows |-> t.num_rows, num_cols |-> t.num_cols,
                          error |-> "Row width differs from header width"],
                         src, cand)
             ELSE Parsed(t, src, cand)
    ELSE Parsed(NoDataResult(headers), <<>>, cand)

\* the tail shared by the text parsers: build the frame and the result
BuildTable(headers, rows, src, cand) ==
    IF headers # <<>> /\ rows # <<>>
    THEN LET df == DataFrameWithColumns(rows, headers)
         IN  IF IsRaise(df) THEN Parsed(df, <<>>, cand)
             ELSE Parsed(TableResult(headers, df), src, cand)
    ELSE IF rows # <<>>
    THEN LET df == DataFrameDefault(rows)
         IN  Parsed(TableResult(headers, df),
                    IF Len(df.columns) = 0 THEN <<>> ELSE src, cand)
    ELSE Parsed(NoDataResult(headers), <<>>, cand)

\* cells + [''] * (n - len(cells)) if len(cells) < n else cells[:n]
PadOrTruncate(cells, n) ==
    IF Len(cells) < n THEN cells \o Blanks(n - Len(cells)) ELSE SubSeq(cells, 1, n)

----------------------------------------------------------------------------
(* _parse_markdown_table (the same code in both revisions).                *)

NonEmptyStripped(seq) ==
    LET stripped == [i \in 1..Len(seq) |-> Strip(seq[i])]
    IN  SelectSeq(stripped, LAMBDA c : c # "")

MarkdownCells(line) == NonEmptyStripped(Split(line, "|"))

parse_markdown_table(md_table) ==
    LET lines == NonEmptyStripped(Split(md_table, "\n"))
        header_row == IF lines # <<>> THEN lines[1] ELSE ""
        data_rows == IF Len(lines) > 2 THEN SubSeq(lines, 3, Len(lines)) ELSE <<>>
        headers == MarkdownCells(header_row)
        kept == SelectSeq(data_rows, LAMBDA row : MarkdownCells(row) # <<>>)
        rows == [i \in 1..Len(kept) |->
                    PadOrTruncate(MarkdownCells(kept[i]), Len(headers))]
    IN  BuildTable(headers, rows, kept,
                   [i \in 1..Len(kept) |-> MarkdownCells(kept[i])])

----------------------------------------------------------------------------
(* _parse_financial_table (table_parser_improved.py).                      *)

RuleCharsFinancial == {"-", "=", "+"}

\* the rule characters without '-'
IsSeparatorFinancial_no_dash(line) ==
    LET s == Strip(line)
    IN  s # "" /\ AllIn(s, {"=", "+"})

\* re.match(r'^[-=]+$', s) or all(c in '-=+' for c in s), s = line.strip()
IsSeparatorFinancial(line) ==
    LET s == Strip(line)
    IN  (s # "" /\ AllIn(s, {"-", "="})) \/ AllIn(s, RuleCharsFinancial)

IsHeaderWord(line) ==
    Contains(line, "Item") \/ Contains(line, "Description") \/ Contains(line, "Product")

\* only the 'Subtotal' prefix is tested
IsSummaryRow_subtotal_only(line) == StartsWith(Strip(line), "Subtotal")

IsSummaryRow(line) ==
    StartsWith(Strip(line), "Total") \/ StartsWith(Strip(line), "Subtotal")

\* header_row (as <<line>>, or <<>> for None) and data_rows
FinancialLayout(lines) ==
    LET separator_indices == {i \in 1..Len(lines) : IsSeparatorFinancial(lines[i])}
    IN  IF separator_indices # {}
        THEN LET header_idx == IF Min(separator_indices) = 1 THEN 2 ELSE 1
                 data_idx == {i \in 1..Len(lines) :
                                i \notin separator_indices /\ i # header_idx}
             IN  [header_row |-> IF header_idx <= Len(lines)
                                 THEN <<lines[header_idx]>> ELSE <<>>,
                  data_rows |-> SelectSeq([i \in 1..Len(lines) |-> i],
                                          LAMBDA i : i \in data_idx)]
        ELSE LET found == {i \in 1..Len(lines) : IsHeaderWord(lines[i])}
                 h == IF found # {} THEN Min(found) ELSE 1
             IN  [header_row |-> <<lines[h]>>,
                  data_rows |-> [i \in 1..(Len(lines) - h) |-> h + i]]

DefaultHeaders(max_cols) ==
    IF max_cols >= 3
    THEN SubSeq(<<"Item", "Quantity", "Price", "Total">>, 1,
                IF max_cols < 4 THEN max_cols ELSE 4)
    ELSE SubSeq(<<"Item", "Value", "Total">>, 1, max_cols)

\* max_cols of the data rows, 0 when there are none
MaxCols(data_rows) ==
    Max({0} \cup {Len(ReSplit2(Strip(data_rows[i]))) : i \in 1..Len(data_rows)})

\* the headers split from header_row (<<line>>, or <<>> for None), or
\* the default headers when that gives none
FinancialHeaders(header_row, data_rows) ==
    IF header_row # <<>> /\ header_row[1] # ""
    THEN ReSplit2(Strip(header_row[1]))
    ELSE DefaultHeaders(MaxCols(data_rows))

\* cells, padded when short and left as they are when long
PadElifTruncate_pad_only(cells, n) ==
    IF Len(cells) < n THEN cells \o Blanks(n - Len(cells)) ELSE cells

\* cells, padded when short and truncated when long
PadElifTruncate(cells, n) ==
    IF Len(cells) < n THEN cells \o Blanks(n - Len(cells))
    ELSE IF Len(cells) > n THEN SubSeq(cells, 1, n)
    ELSE cells

parse_financial_table(text_table) ==
    LET lines == NonBlankLines(text_table)
    IN  IF lines = <<>> THEN Parsed(EmptyTableResult, <<>>, <<>>)
        ELSE
        LET layout == FinancialLayout(lines)
            data_rows == [i \in 1..Len(layout.data_rows) |-> lines[layout.data_rows[i]]]
            headers == FinancialHeaders(layout.header_row, data_rows)
            kept == SelectSeq(data_rows,
                        LAMBDA row : /\ ~IsSummaryRow(row)
                                     /\ AnyTruthy(ReSplit2(Strip(row))))
            rows == [i \in 1..Len(kept) |->
                        PadElifTruncate(ReSplit2(Strip(kept[i])), Len(headers))]
        IN  BuildTable(headers, rows, kept,
                       [i \in 1..Len(kept) |-> ReSplit2(Strip(kept[i]))])

----------------------------------------------------------------------------
(* _parse_space_separated_table (table_parser_improved.py).                *)

\* the line under the header taken for a separator and left out
parse_space_separated_table_skipping(text_table) ==
    LET lines == NonBlankLines(text_table)
    IN  IF lines = <<>> THEN Parsed(EmptyTableResult, <<>>, <<>>)
        ELSE
        LET header_row == lines[1]
            data_rows == SubSeq(lines, 3, Len(lines))
            headers == ReSplit2(Strip(header_row))
            kept == SelectSeq(data_rows, LAMBDA row : AnyTruthy(ReSplit2(Strip(row))))
            rows == [i \in 1..Len(kept) |->
                        PadElifTruncate(ReSplit2(Strip(kept[i])), Len(headers))]
        IN  BuildTable(headers, rows, kept,
                       [i \in 1..Len(kept) |-> ReSplit2(Strip(kept[i]))])

parse_space_separated_table(text_table) ==
    LET lines == NonBlankLines(text_table)
    IN  IF lines = <<>> THEN Parsed(EmptyTableResult, <<>>, <<>>)
        ELSE
        LET header_row == lines[1]
            data_rows == SubSeq(lines, 2, Len(lines))
            headers == ReSplit2(Strip(header_row))
            kept == SelectSeq(data_rows, LAMBDA row : AnyTruthy(ReSplit2(Strip(row))))
            rows == [i \in 1..Len(kept) |->
                        PadElifTruncate(ReSplit2(Strip(kept[i])), Len(headers))]
        IN  BuildTable(headers, rows, kept,
                       [i \in 1..Len(kept) |-> ReSplit2(Strip(kept[i]))])

----------------------------------------------------------------------------
(* The row normalisation of parse_html_table and of the older              *)
(* _parse_fixed_width_table: two list comprehensions, the second one       *)
(* reading the list the first one produced.                                *)

\* rows = [row + [''] * (n - len(row)) for row in rows if len(row) <= n]
PaddedRows(rows, n) ==
    LET fits == SelectSeq(rows, LAMBDA row : Len(row) <= n)
    IN  [i \in 1..Len(fits) |-> fits[i] \o Blanks(n - Len(fits[i]))]

\* rows = [row[:n] for row in rows if len(row) > n], on the padded list
NormalizeRows(rows, n) ==
    LET long == SelectSeq(PaddedRows(rows, n), LAMBDA row : Len(row) > n)
    IN  [i \in 1..Len(long) |-> SubSeq(long[i], 1, n)]

\* the lines (or <tr> positions) the normalised rows come from
NormalizeSrc(rows, src, n) ==
    LET fits == SelectSeq([i \in 1..Len(rows) |-> i], LAMBDA i : Len(rows[i]) <= n)
        long == SelectSeq(fits,
                    LAMBDA i : Len(rows[i] \o Blanks(n - Len(rows[i]))) > n)
    IN  [i \in 1..Len(long) |-> src[long[i]]]

BuildNormalizedTable(headers, rows, src) ==
    IF headers # <<>> /\ rows # <<>>
    THEN LET df == DataFrameWithColumns(NormalizeRows(rows, Len(headers)), headers)
         IN  IF IsRaise(df) THEN Parsed(df, <<>>, rows)
             ELSE Parsed(TableResult(headers, df),
                         NormalizeSrc(rows, src, Len(headers)), rows)
    ELSE IF rows # <<>>
    THEN LET df == DataFrameDefault(rows)
         IN  Parsed(TableResult(headers, df),
                    IF Len(df.columns) = 0 THEN <<>> ELSE src, rows)
    ELSE Parsed(NoDataResult(headers), <<>>, rows)

----------------------------------------------------------------------------
(* _parse_fixed_width_table of table_parser_improved.py: the body between  *)
(* the separator scan and the frame is elided in the source, so headers    *)
(* and rows are always empty.                                              *)

parse_fixed_width_table_improved(text_table) ==
    IF NonBlankLines(text_table) = <<>>
    THEN Parsed(EmptyTableResult, <<>>, <<>>)
    ELSE BuildNormalizedTable(<<>>, <<>>, <<>>)

----------------------------------------------------------------------------
(* _parse_fixed_width_table of table_parser.py.                            *)

RuleChars == {"-", "=", "+", "|"}

\* re.match(r'^[-=+]+$', s) or all(c in '-=+|' for c in s), s = line.strip()
IsSeparatorLine(line) ==
    LET s == Strip(line)
    IN  (s # "" /\ AllIn(s, {"-", "=", "+"})) \/ AllIn(s, RuleChars)

RECURSIVE SeparatorBoundaries(_, _, _)
\* offsets where a run of '-', '=', '+' starts; a space ends a run
SeparatorBoundaries(line, i, in_separator) ==
    IF i >= Len(line) THEN <<>>
    ELSE LET char == Ch(line, i + 1)
         IN  IF char \in {"-", "=", "+"} /\ ~in_separator
             THEN <<i>> \o SeparatorBoundaries(line, i + 1, TRUE)
             ELSE IF char = " " /\ in_separator
             THEN SeparatorBoundaries(line, i + 1, FALSE)
             ELSE SeparatorBoundaries(line, i + 1, in_separator)

RECURSIVE find_boundaries(_, _, _)
\* offsets where a run of characters other than ' ' starts
find_boundaries(line, i, in_word) ==
    IF i >= Len(line) THEN <<>>
    ELSE LET char == Ch(line, i + 1)
         IN  IF char # " " /\ ~in_word
             THEN <<i>> \o find_boundaries(line, i + 1, TRUE)
             ELSE IF char = " " /\ in_word
             THEN find_boundaries(line, i + 1, FALSE)
             ELSE find_boundaries(line, i + 1, in_word)

RECURSIVE SplitWhitespaceFrom(_, _)
SplitWhitespaceFrom(s, i) ==
    LET word == {j \in i..Len(s) : Ch(s, j) \notin Whitespace}
    IN  IF word = {} THEN <<>>
        ELSE LET b == Min(word)
                 e == Max({k \in b..Len(s) :
                             \A m \in b..k : Ch(s, m) \notin Whitespace})
             IN  <<SubSeq(s, b, e)>> \o SplitWhitespaceFrom(s, e + 1)

\* s.split()
SplitWhitespace(s) == SplitWhitespaceFrom(s, 1)

PrevBoundary(boundaries, k) == IF k = 1 THEN 0 ELSE boundaries[k - 1]

\* the cells cut from line at the boundaries of a separator line; a data
\* line (clip) also skips a boundary that lies beyond its end
CutAtSeparator(line, boundaries, clip) ==
    LET used == SelectSeq([k \in 1..Len(boundaries) |-> k],
                    LAMBDA k : /\ boundaries[k] > PrevBoundary(boundaries, k)
                               /\ (clip => boundaries[k] <= Len(line)))
        last == boundaries[Len(boundaries)]
    IN  [i \in 1..Len(used) |->
            Strip(Slice(line, PrevBoundary(boundaries, used[i]), boundaries[used[i]]))]
        \o (IF last < Len(line) THEN <<Strip(SliceFrom(line, last))>> ELSE <<>>)

\* the cells cut from line at the word starts of the first line
CutAtWords(line, boundaries) ==
    [k \in 1..Len(boundaries) |->
        Strip(Slice(line, PrevBoundary(boundaries, k), boundaries[k]))]
    \o <<Strip(SliceFrom(line, boundaries[Len(boundaries)]))>>

FixedWidthWithSeparators(lines, separator_indices) ==
    LET header_idx == IF Min(separator_indices) = 1 THEN 2 ELSE 1
    IN  IF header_idx > Len(lines)
        THEN Parsed([raise |-> "list index out of range"], <<>>, <<>>)
        ELSE
        LET header_row == lines[header_idx]
            data_rows == SelectSeq([i \in 1..Len(lines) |-> i],
                            LAMBDA i : i \notin separator_indices /\ i # header_idx)
            separator_line == lines[Min(separator_indices)]
            boundaries == SeparatorBoundaries(separator_line, 0, FALSE)
            headers == IF boundaries # <<>>
                       THEN CutAtSeparator(header_row, boundaries, FALSE)
                       ELSE SplitWhitespace(header_row)
            cells(i) == IF boundaries # <<>>
                        THEN CutAtSeparator(lines[i], boundaries, TRUE)
                        ELSE SplitWhitespace(lines[i])
            kept == SelectSeq(data_rows, LAMBDA i : cells(i) # <<>>)
        IN  BuildNormalizedTable(headers,
                                 [k \in 1..Len(kept) |-> cells(kept[k])],
                                 [k \in 1..Len(kept) |-> lines[kept[k]]])

FixedWidthWithoutSeparators(lines) ==
    LET boundaries == find_boundaries(lines[1], 0, FALSE)
        cells(line) == IF boundaries # <<>>
                       THEN CutAtWords(line, boundaries)
                       ELSE SplitWhitespace(line)
    IN  BuildNormalizedTable(cells(lines[1]),
                             [k \in 1..(Len(lines) - 1) |-> cells(lines[k + 1])],
                             [k \in 1..(Len(lines) - 1) |-> lines[k + 1]])

parse_fixed_width_table(text_table) ==
    LET lines == NonBlankLines(text_table)
        separator_indices == {i \in 1..Len(lines) : IsSeparatorLine(lines[i])}
    IN  IF lines = <<>> THEN Parsed(EmptyTableResult, <<>>, <<>>)
        ELSE IF separator_indices # {}
        THEN FixedWidthWithSeparators(lines, separator_indices)
        ELSE FixedWidthWithoutSeparators(lines)

----------------------------------------------------------------------------
(* parse_html_table (the same code in both revisions).  The fragment is    *)
(* the tree BeautifulSoup builds: an optional <thead> holding rows, then   *)
(* the body rows; a row is a sequence of cells [tag, text].                *)

CellTexts(row) == [j \in 1..Len(row) |-> Strip(row[j].text)]

ThCells(row) == SelectSeq(row, LAMBDA cell : cell.tag = "th")

RECURSIVE Flatten(_)
Flatten(seqs) == IF seqs = <<>> THEN <<>> ELSE Head(seqs) \o Flatten(Tail(seqs))

parse_html_table(html_table) ==
    LET all_tr == html_table.thead \o html_table.body
        headers == IF html_table.has_thead
                   THEN Flatten([i \in 1..Len(html_table.thead) |->
                                    CellTexts(ThCells(html_table.thead[i]))])
                   ELSE IF all_tr # <<>> THEN CellTexts(all_tr[1])
                   ELSE <<>>
        first == IF headers # <<>> THEN 2 ELSE 1
        kept == SelectSeq([i \in 1..Len(all_tr) |-> i],
                    LAMBDA i : i >= first /\ all_tr[i] # <<>>)
        rows == [k \in 1..Len(kept) |-> CellTexts(all_tr[kept[k]])]
    IN  IF headers # <<>> /\ rows # <<>>
        THEN LET df == DataFrameWithColumns(NormalizeRows(rows, Len(headers)), headers)
             IN  IF IsRaise(df) THEN Parsed(df, <<>>, rows)
                 ELSE Parsed(TableResult(headers, df),
                             NormalizeSrc(rows, kept, Len(headers)), rows)
        ELSE IF rows # <<>>
        THEN LET df == DataFrameDefault(rows)
             IN  Parsed(TableResult(df.columns, df), kept, rows)
        ELSE Parsed([type |-> "Table", data |-> <<>>, headers |-> <<>>,
                     error |-> "No data found in table"], <<>>, rows)

\* the except clause of parse_html_table
parse_html_table_guarded(html_table) ==
    LET r == parse_html_table(html_table)
    IN  IF IsRaise(r.ret)
        THEN Parsed([type |-> "Table", error |-> "Failed to parse HTML table"],
                    <<>>, r.cand)
        ELSE r

----------------------------------------------------------------------------
(* parse_text_table: the dispatcher of each revision.  The result adds     *)
(* invoked, the sub-parsers called, in call order.                         *)

HasMarkdownRule(text_table) ==
    Contains(text_table, "-+-") \/ Contains(text_table, "---|---")

\* table_parser_improved.py: '|' in t and ('-+-' in t or '---|---' in t)
IsMarkdownTable(text_table) ==
    Contains(text_table, "|") /\ HasMarkdownRule(text_table)

\* table_parser.py: '|' in t and '-+-' in t or '---|---' in t
IsMarkdownTableOriginal(text_table) ==
    (Contains(text_table, "|") /\ Contains(text_table, "-+-"))
    \/ Contains(text_table, "---|---")

IsFinancialTable(text_table) ==
    Contains(text_table, "$") /\ Contains(text_table, "Total")

IsSpaceSeparatedTable(text_table) ==
    /\ Count(text_table, "\n") >= 2
    /\ \E i \in 1..Len(Split(text_table, "\n")) :
          Contains(Split(text_table, "\n")[i], "  ")

\* the except clause of parse_text_table
GuardText(r, name) ==
    IF IsRaise(r.ret)
    THEN [ret |-> [type |-> "Table", error |-> "Failed to parse text table"],
          src |-> <<>>, cand |-> r.cand, invoked |-> <<name>>]
    ELSE [ret |-> r.ret, src |-> r.src, cand |-> r.cand, invoked |-> <<name>>]

\* the financial probe tried before the markdown probe
parse_text_table_improved_reordered(text_table) ==
    IF IsFinancialTable(text_table)
    THEN GuardText(parse_financial_table(text_table), "financial")
    ELSE IF IsMarkdownTable(text_table)
    THEN GuardText(parse_markdown_table(text_table), "markdown")
    ELSE IF IsSpaceSeparatedTable(text_table)
    THEN GuardText(parse_space_separated_table(text_table), "space_separated")
    ELSE GuardText(parse_fixed_width_table_improved(text_table), "fixed_width")

parse_text_table_improved(text_table) ==
    IF IsMarkdownTable(text_table)
    THEN GuardText(parse_markdown_table(text_table), "markdown")
    ELSE IF IsFinancialTable(text_table)
    THEN GuardText(parse_financial_table(text_table), "financial")
    ELSE IF IsSpaceSeparatedTable(text_table)
    THEN GuardText(parse_space_separated_table(text_table), "space_separated")
    ELSE GuardText(parse_fixed_width_table_improved(text_table), "fixed_width")

parse_text_table(text_table) ==
    IF IsMarkdownTableOriginal(text_table)
    THEN GuardText(parse_markdown_table(text_table), "markdown")
    ELSE GuardText(parse_fixed_width_table(text_table), "fixed_width")

----------------------------------------------------------------------------
(* The blocks the engine is given.                                         *)

Alphabet == {"|", "-", "+", " ", "\n", "x"}

RECURSIVE StringsUpTo(_)
StringsUpTo(n) ==
    IF n = 0 THEN {""}
    ELSE LET shorter == StringsUpTo(n - 1)
         IN  shorter \cup {s \o c : s \in shorter, c \in Alphabet}

SmallTexts == StringsUpTo(MaxLen)

CandidateLines ==
    { "A|B", "---|---", "|",
      "Item  Qty  Total", "-----", "Widget A  10  $250",
      "Total:  $990", "Total:  5" }

RECURSIVE BlocksOfLines(_)
BlocksOfLines(k) ==
    IF k = 1 THEN CandidateLines
    ELSE {b \o "\n" \o l : b \in BlocksOfLines(k - 1), l \in CandidateLines}

LineBlocks == UNION {BlocksOfLines(k) : k \in 1..MaxLines}

\* sep.join(cells)
RECURSIVE Join(_, _)
Join(cells, sep) ==
    IF cells = <<>> THEN ""
    ELSE IF Len(cells) = 1 THEN cells[1]
    ELSE cells[1] \o sep \o Join(Tail(cells), sep)

TablesOf(names, cellsets) ==
    { [names |-> names, rows |-> rows] :
          rows \in UNION {[1..k -> cellsets] : k \in 1..MaxDataRows} }

\* markdown tables: a header line, a separator line such as
\* '| ---- | --- |', and pipe-delimited data lines
MarkdownTables ==
    TablesOf(<<"Name">>, {<<"John">>, <<"30">>})
    \cup TablesOf(<<"Name", "Age">>, {<<"John", "30">>, <<"Ann", "4">>})

MarkdownLine(cells) == "| " \o Join(cells, " | ") \o " |"

RenderMarkdown(t) ==
    Join(<<MarkdownLine(t.names),
           MarkdownLine([j \in 1..Len(t.names) |->
                            IF j = 1 THEN "----" ELSE "---"])>>
         \o [i \in 1..Len(t.rows) |-> MarkdownLine(t.rows[i])],
         "\n")

\* ledger tables: column names with 'Total' among them, a rule line of
\* dashes, data lines with '$' amounts
LedgerTables ==
    TablesOf(<<"Item", "Total">>,
             {<<"Widget A", "$250.00">>, <<"Tax (10%):", "$90">>})
    \cup TablesOf(<<"Item", "Qty", "Total">>,
                  {<<"Widget A", "10", "$250.00">>, <<"Widget B", "5", "$150">>})

Gaps == {"  ", "    "}
Indents == {"", "    "}

RenderLedger(t, gap, indent) ==
    Join(<<indent \o Join(t.names, gap), indent \o "--------">>
         \o [i \in 1..Len(t.rows) |-> indent \o Join(t.rows[i], gap)],
         "\n")

\* the two tables the specification of the engine gives as test vectors
SpecMarkdownExample == "| Name | Age |\n| ---- | --- |\n| John | 30  |"

SpecFixedWidthExample ==
    "Item                  Quantity    Unit Price    Total\n"
    \o "--------------------------------------------------------\n"
    \o "Widget A              10          $25.00        $250.00"

\* a markdown table whose data line has an empty cell in the middle
EmptyCellExample == "| A | B | C |\n|---|---|---|\n| a |  | c |"

\* a ledger with a data line longer than its header and a closing total
LedgerWithTotalExample ==
    "Item  Total\n-----\nWidget A  10  $250\nWidget B  $150\nTotal:  $400"

\* two lines in columns with a blank line between them
BlankLineExample == "Item  Qty\n\nWidget A  10"

RenderedBlocks ==
    {RenderMarkdown(t) : t \in MarkdownTables}
    \cup {RenderLedger(t, g, ind) : t \in LedgerTables, g \in Gaps, ind \in Indents}
    \cup {SpecMarkdownExample, SpecFixedWidthExample, EmptyCellExample,
          LedgerWithTotalExample, BlankLineExample}

TextBlocks == SmallTexts \cup LineBlocks \cup RenderedBlocks

Th(text) == [tag |-> "th", text |-> text]
Td(text) == [tag |-> "td", text |-> text]

\* <tr> rows of no, one, two and three cells
MarkupRows ==
    { <<>>, <<Th("A")>>, <<Td(" b ")>>, <<Th("A"), Th(" B")>>,
      <<Td("1"), Td("")>>, <<Td("1"), Td(" 2 "), Td("3")>> }

SeqsUpTo(S, n) == UNION {[1..k -> S] : k \in 0..n}

MarkupBlocks ==
    { [has_thead |-> FALSE, thead |-> <<>>, body |-> b] :
          b \in SeqsUpTo(MarkupRows, MaxRows) }
    \cup
    { [has_thead |-> TRUE, thead |-> <<h>>, body |-> b] :
          h \in MarkupRows, b \in SeqsUpTo(MarkupRows, MaxRows) }

Blocks ==
    { [is_markup |-> FALSE, text |-> t] : t \in TextBlocks }
    \cup { [is_markup |-> TRUE, html |-> m] : m \in MarkupBlocks }

----------------------------------------------------------------------------
(* The state machine: a block arrives, one of the entry points is applied  *)
(* to it.  version names the revision called, invoked the sub-parsers it   *)
(* ran, row_src the line (or <tr> position) behind each returned record,   *)
(* candidates the cell lists of the candidate data rows it found.          *)

NoResult == [type |-> "none"]

NoArgument == [is_markup |-> FALSE, text |-> ""]
NoCall == [op |-> "none", arg |-> NoArgument]

Threads == {"thread-1", "thread-2"}
Instance == "self"

\* no document is in the pipeline
PipelineIdle ==
    /\ el_type = "none"
    /\ element = NoResult

\* no caller holds the transformer
CallsIdle ==
    /\ frames = [l \in {Instance} \cup Threads |-> NoArgument]
    /\ thread_pc = [t \in Threads |-> "idle"]
    /\ thread_call = [t \in Threads |-> NoCall]
    /\ returned = [t \in Threads |-> NoResult]
    /\ watched = NoCall
    /\ first_result = NoResult
    /\ ncalls = 0

Workers == {"worker-a", "worker-b"}
NoReply == [code |-> "none"]
IdleWorker == [pc |-> "idle", task |-> 0]

\* no request has reached the API server
ServiceIdle ==
    /\ schema = "none"
    /\ tasks = <<>>
    /\ batches = <<>>
    /\ queue = <<>>
    /\ processing_key = <<>>
    /\ workers = [w \in Workers |-> IdleWorker]
    /\ background = {}
    /\ reply = NoReply
    /\ redis_up = FALSE
    /\ worker_running = FALSE

PoolWorkers == {"worker-0", "worker-1"}
IdlePoolWorker == [pc |-> "idle", task |-> 0]

\* no task has been created and every worker of the pool waits
PoolIdle ==
    /\ local_tasks = <<>>
    /\ pool = [w \in PoolWorkers |-> IdlePoolWorker]

\* the engine of the single-call specification is not used
EngineIdle ==
    /\ block = NoArgument
    /\ pc = "ready"
    /\ version = "none"
    /\ invoked = <<>>
    /\ result = NoResult
    /\ row_src = <<>>
    /\ candidates = <<>>

Init ==
    /\ block \in Blocks
    /\ pc = "ready"
    /\ version = "none"
    /\ invoked = <<>>
    /\ result = NoResult
    /\ row_src = <<>>
    /\ candidates = <<>>
    /\ PipelineIdle
    /\ CallsIdle
    /\ ServiceIdle
    /\ PoolIdle

\* table_parser_improved.TableTransformer.parse_text_table
ParseTextImproved ==
    /\ pc = "ready"
    /\ ~block.is_markup
    /\ LET r == parse_text_table_improved(block.text)
       IN  /\ result' = r.ret
           /\ invoked' = r.invoked
           /\ row_src' = r.src
           /\ candidates' = r.cand
    /\ version' = "table_parser_improved"
    /\ pc' = "done"
    /\ UNCHANGED <<block, outside_engine>>

\* table_parser.TableTransformer.parse_text_table
ParseTextOriginal ==
    /\ pc = "ready"
    /\ ~block.is_markup
    /\ LET r == parse_text_table(block.text)
       IN  /\ result' = r.ret
           /\ invoked' = r.invoked
           /\ row_src' = r.src
           /\ candidates' = r.cand
    /\ version' = "table_parser"
    /\ pc' = "done"
    /\ UNCHANGED <<block, outside_engine>>

\* TableTransformer.parse_html_table, identical in the two revisions
ParseHtml ==
    /\ pc = "ready"
    /\ block.is_markup
    /\ LET r == parse_html_table_guarded(block.html)
       IN  /\ result' = r.ret
           /\ row_src' = r.src
           /\ candidates' = r.cand
    /\ invoked' = <<"html">>
    /\ version' \in {"table_parser", "table_parser_improved"}
    /\ pc' = "done"
    /\ UNCHANGED <<block, outside_engine>>

Next == ParseTextImproved \/ ParseTextOriginal \/ ParseHtml

Spec == Init /\ [][Next]_vars

----------------------------------------------------------------------------
(* The document pipeline (parse_file and parse_document of main.py): each  *)
(* element the partitioner yields is either handed to parse_text_table or  *)
(* emitted as plain text.                                                  *)

ElementTypes == {"Table", "Text", "Title"}

StartsAndEndsWithDash(line) ==
    LET s == Strip(line)
    IN  StartsWith(s, "-") /\ s # "" /\ Ch(s, Len(s)) = "-"

\* the content triggers of main.py for an element that might be a table
IsSuspectedTable(type, el_text) ==
    \/ type = "Table"
    \/ /\ type = "Text"
       /\ \/ Contains(el_text, "|")
          \/ Contains(el_text, "+---+")
          \/ Contains(el_text, "----")
          \/ Contains(el_text, "=====")
          \/ Contains(el_text, "---------")
          \/ (Contains(el_text, "$") /\ Contains(el_text, "Total"))
          \/ /\ Count(el_text, "\n") >= 2
             /\ \E i \in 1..Len(Split(el_text, "\n")) :
                   StartsAndEndsWithDash(Split(el_text, "\n")[i])
          \/ /\ Count(el_text, "\n") >= 2
             /\ \E i \in 1..Len(Split(el_text, "\n")) :
                   Contains(Split(el_text, "\n")[i], "  ")

TextElement(type, el_text) == [type |-> type, text |-> el_text]

PipelineBlocks ==
    { [is_markup |-> FALSE, text |-> t] : t \in LineBlocks \cup RenderedBlocks }

PipelineInit ==
    /\ block \in PipelineBlocks
    /\ el_type \in ElementTypes
    /\ pc = "ready"
    /\ version = "none"
    /\ invoked = <<>>
    /\ result = NoResult
    /\ row_src = <<>>
    /\ candidates = <<>>
    /\ element = NoResult
    /\ CallsIdle
    /\ ServiceIdle
    /\ PoolIdle

\* the body of the loop over elements_raw, for a suspected table
EmitTable ==
    /\ pc = "ready"
    /\ IsSuspectedTable(el_type, block.text)
    /\ LET r == parse_text_table_improved(block.text)
       IN  /\ result' = r.ret
           /\ invoked' = r.invoked
           /\ row_src' = r.src
           /\ candidates' = r.cand
           /\ element' = r.ret
    /\ version' = "table_parser_improved"
    /\ pc' = "done"
    /\ UNCHANGED <<block, el_type, not_pipeline>>

\* the body of the loop over elements_raw, for any other element
EmitText ==
    /\ pc = "ready"
    /\ ~IsSuspectedTable(el_type, block.text)
    /\ element' = TextElement(el_type, block.text)
    /\ pc' = "done"
    /\ UNCHANGED <<block, el_type, version, invoked, result, row_src, candidates,
                   not_pipeline>>

PipelineNext == EmitTable \/ EmitText

PipelineSpec == PipelineInit /\ [][PipelineNext]_vars

----------------------------------------------------------------------------
(* The header statements of _parse_financial_table (lines 246-264) on      *)
(* their own: header_row is None or the first line of the block, and the   *)
(* other lines are data_rows.  Inside _parse_financial_table header_row is *)
(* None only for a block that is a single rule line, which has no data     *)
(* rows; here the statements also meet data rows without a header.         *)

HeadersInit ==
    /\ block \in {b \in Blocks : ~b.is_markup /\ NonBlankLines(b.text) # <<>>}
    /\ pc = "ready"
    /\ version = "none"
    /\ invoked = <<>>
    /\ result = NoResult
    /\ row_src = <<>>
    /\ candidates = <<>>
    /\ PipelineIdle
    /\ CallsIdle
    /\ ServiceIdle
    /\ PoolIdle

HeadersOf(header_row, data_rows) ==
    [type |-> "headers",
     explicit |-> (header_row # <<>>),
     max_cols |-> MaxCols(data_rows),
     headers |-> FinancialHeaders(header_row, data_rows)]

\* the statements run with a header line
DeriveHeaders ==
    /\ pc = "ready"
    /\ LET lines == NonBlankLines(block.text)
       IN  result' = HeadersOf(<<lines[1]>>, Tail(lines))
    /\ pc' = "done"
    /\ UNCHANGED <<block, version, invoked, row_src, candidates, outside_engine>>

\* the statements run with header_row = None
DefaultTheHeaders ==
    /\ pc = "ready"
    /\ result' = HeadersOf(<<>>, NonBlankLines(block.text))
    /\ pc' = "done"
    /\ UNCHANGED <<block, version, invoked, row_src, candidates, outside_engine>>

HeadersNext == DeriveHeaders \/ DefaultTheHeaders

HeadersSpec == HeadersInit /\ [][HeadersNext]_vars

----------------------------------------------------------------------------
(* Callers of the module-level instance table_transformer of main.py:      *)
(* threads that call parse_text_table and parse_html_table again and       *)
(* again, a call being split into its entry (the argument is bound) and    *)
(* its return (the body has run on what was bound).                        *)

MaxCalls == 3

CallArguments ==
    { [is_markup |-> FALSE, text |-> SpecMarkdownExample],
      [is_markup |-> FALSE, text |-> "Item  Qty  Total\n-----\nWidget A  10  $250"],
      [is_markup |-> TRUE,
       html |-> [has_thead |-> FALSE, thead |-> <<>>,
                 body |-> << <<Th("A"), Th(" B")>>, <<Td("1"), Td("")>> >>]] }

Calls ==
    { [op |-> o, arg |-> a] :
          o \in {"parse_text_table_improved", "parse_text_table"},
          a \in {b \in CallArguments : ~b.is_markup} }
    \cup { [op |-> "parse_html_table", arg |-> a] :
              a \in {b \in CallArguments : b.is_markup} }

\* the value a call returns when nothing else runs
Solo(op, arg) ==
    IF op = "parse_html_table" THEN parse_html_table_guarded(arg.html).ret
    ELSE IF op = "parse_text_table_improved"
         THEN parse_text_table_improved(arg.text).ret
         ELSE parse_text_table(arg.text).ret

\* a call that rebinds its names to whatever an earlier call left in them
FreshFrame_kept(old, arg) ==
    IF old = NoArgument \/ old.is_markup # arg.is_markup THEN arg ELSE old

\* every call binds its parameter and its locals anew
FreshFrame(old, arg) == arg

\* a transformer that keeps the text it works on in an attribute of self
Scratch_on_instance(t) == Instance

\* table_text, lines, headers and rows are locals of the running call
Scratch(t) == t

CallsInit ==
    /\ EngineIdle
    /\ PipelineIdle
    /\ ServiceIdle
    /\ PoolIdle
    /\ frames = [l \in {Instance} \cup Threads |-> NoArgument]
    /\ thread_pc = [t \in Threads |-> "idle"]
    /\ thread_call = [t \in Threads |-> NoCall]
    /\ returned = [t \in Threads |-> NoResult]
    /\ watched \in Calls
    /\ first_result = NoResult
    /\ ncalls = 0

\* a thread calls a method of table_transformer
Enter(t, c) ==
    /\ thread_pc[t] = "idle"
    /\ ncalls < MaxCalls
    /\ ncalls' = ncalls + 1
    /\ thread_pc' = [thread_pc EXCEPT ![t] = "running"]
    /\ thread_call' = [thread_call EXCEPT ![t] = c]
    /\ frames' = [frames EXCEPT ![Scratch(t)] = FreshFrame(frames[Scratch(t)], c.arg)]
    /\ UNCHANGED <<returned, watched, first_result, not_calls>>

\* the method returns its dictionary to the caller
Return(t) ==
    /\ thread_pc[t] = "running"
    /\ LET ret == Solo(thread_call[t].op, frames[Scratch(t)])
       IN  /\ returned' = [returned EXCEPT ![t] = ret]
           /\ first_result' =
                 IF thread_call[t] = watched /\ first_result = NoResult
                 THEN ret ELSE first_result
    /\ thread_pc' = [thread_pc EXCEPT ![t] = "idle"]
    /\ UNCHANGED <<frames, thread_call, watched, ncalls, not_calls>>

CallsNext ==
    \/ \E t \in Threads, c \in Calls : Enter(t, c)
    \/ \E t \in Threads : Return(t)

CallsSpec == CallsInit /\ [][CallsNext]_vars

----------------------------------------------------------------------------
(* The task service: POST /parse and POST /batch of main.py create tasks   *)
(* in SQLite and hand them to the Redis queue or to background tasks of    *)
(* the API server; the worker processes of worker.py take tasks from the   *)
(* queue; GET /status reads a task back.                                   *)

MaxTasks == 2
MaxBatches == 1

ApiKeys == {"key-1", "key-2"}
NotSupplied == ""
FileKinds == {"good", "bad", "empty"}
SourceTypes == {"file", "web"}
Limits == {1, 2}

validate_api_key(api_key) == api_key # NotSupplied /\ api_key \in ApiKeys

Terminal == {"completed", "failed"}

\* a row of the tasks table, with what the request that made it was like
TaskRow(status, api_key, batch_id, source_type, kind, accepted, limit) ==
    [status |-> status, api_key |-> api_key, batch_id |-> batch_id,
     source_type |-> source_type, parses |-> (kind = "good"),
     accepted |-> accepted, limit |-> limit]

SetStatus(t, status) == [tasks EXCEPT ![t].status = status]

\* redis lpush and rpop
Lpush(q, item) == <<item>> \o q
RpopItem(q) == q[Len(q)]
RpopRest(q) == SubSeq(q, 1, Len(q) - 1)

\* RedisClient.add_to_queue; max_concurrent = 0 stands for None as well
add_to_queue(q, pk, task_id, max_concurrent) ==
    IF max_concurrent > 0
    THEN LET processing_count == IF pk = <<>> THEN 0 ELSE pk[1]
         IN  IF processing_count >= max_concurrent
             THEN [queue |-> Lpush(q, [task_id |-> task_id, processing |-> FALSE]),
                   processing_key |-> <<processing_count>>]
             ELSE [queue |-> Lpush(q, [task_id |-> task_id, processing |-> TRUE]),
                   processing_key |-> <<processing_count + 1>>]
    ELSE [queue |-> Lpush(q, [task_id |-> task_id, processing |-> FALSE]),
          processing_key |-> pk]

\* RedisClient.get_from_queue on a queue that is not empty
get_from_queue(q, pk) ==
    LET item == RpopItem(q)
    IN  [item |-> item,
         queue |-> RpopRest(q),
         processing_key |->
             IF item.processing \/ pk = <<>> THEN pk ELSE <<pk[1] + 1>>]

ServiceInit ==
    /\ EngineIdle
    /\ PipelineIdle
    /\ CallsIdle
    /\ PoolIdle
    /\ redis_up \in BOOLEAN
    /\ worker_running \in BOOLEAN
    \* worker.init_db creates the tasks table when a worker starts first
    /\ schema \in (IF worker_running THEN {"none", "without_batch_id"} ELSE {"none"})
    /\ tasks = <<>>
    /\ batches = <<>>
    /\ queue = <<>>
    /\ processing_key = <<>>
    /\ workers = [w \in Workers |-> IdleWorker]
    /\ background = {}
    /\ reply = NoReply

\* POST /parse
PostParse(api_key, source_type, kind, small, async_processing) ==
    LET task_id == Len(tasks) + 1
        row(accepted) ==
            TaskRow("processing", api_key, 0, source_type, kind, accepted, 0)
    IN  /\ validate_api_key(api_key)
        /\ Len(tasks) < MaxTasks
        /\ schema' = IF schema = "none" THEN "without_batch_id" ELSE schema
        /\ IF source_type = "file" /\ small /\ ~async_processing
           THEN \* parsed while the request waits
                /\ tasks' = Append(tasks,
                       [row(FALSE) EXCEPT !.status =
                           IF kind = "good" THEN "completed" ELSE "processing"])
                /\ UNCHANGED <<queue, processing_key, background>>
           ELSE IF async_processing /\ redis_up
           THEN IF source_type = "file" /\ kind = "empty"
                THEN \* 400 File content is empty
                     /\ tasks' = Append(tasks, row(FALSE))
                     /\ UNCHANGED <<queue, processing_key, background>>
                ELSE LET r == add_to_queue(queue, processing_key, task_id, 0)
                     IN  /\ tasks' = Append(tasks, row(TRUE))
                         /\ queue' = r.queue
                         /\ processing_key' = r.processing_key
                         /\ UNCHANGED background
           ELSE /\ tasks' = Append(tasks, row(TRUE))
                /\ background' = background \cup {[task |-> task_id, pc |-> "scheduled"]}
                /\ UNCHANGED <<queue, processing_key>>
        /\ UNCHANGED <<batches, workers, reply, redis_up, worker_running, not_service>>

\* the loop of POST /batch over the uploaded files, from file i on
RECURSIVE BatchLoop(_, _, _, _, _, _, _, _, _)
BatchLoop(files, i, api_key, batch_id, async_processing, max_concurrent, rows, q, st) ==
    IF i > Len(files) THEN [tasks |-> rows, queue |-> q, redis |-> st]
    ELSE LET task_id == Len(rows) + 1
             row(accepted) == TaskRow("queued", api_key, batch_id, "file", files[i],
                                      accepted, max_concurrent)
         IN  IF async_processing /\ redis_up
             THEN IF files[i] = "empty"
                  THEN BatchLoop(files, i + 1, api_key, batch_id, async_processing,
                                 max_concurrent, Append(rows, row(FALSE)), q, st)
                  ELSE LET r == add_to_queue(q, st.processing_key, task_id, max_concurrent)
                       IN  BatchLoop(files, i + 1, api_key, batch_id, async_processing,
                                     max_concurrent, Append(rows, row(TRUE)), r.queue,
                                     [st EXCEPT !.processing_key = r.processing_key])
             ELSE BatchLoop(files, i + 1, api_key, batch_id, async_processing,
                            max_concurrent, Append(rows, row(TRUE)), q,
                            [st EXCEPT !.background =
                                @ \cup {[task |-> task_id, pc |-> "scheduled"]}])

\* POST /batch with uploaded files
PostBatch(api_key, files, async_processing, max_concurrent) ==
    LET batch_id == Len(batches) + 1
        r == BatchLoop(files, 1, api_key, batch_id, async_processing, max_concurrent,
                       tasks, queue,
                       [processing_key |-> processing_key, background |-> background])
    IN  /\ validate_api_key(api_key)
        /\ files # <<>>
        /\ Len(batches) < MaxBatches
        /\ Len(tasks) + Len(files) <= MaxTasks
        /\ schema' = IF schema = "none" THEN "with_batch_id" ELSE schema
        /\ batches' = Append(batches,
               [status |-> "processing", api_key |-> api_key,
                total_tasks |-> Len(files), completed_tasks |-> 0])
        /\ IF schema = "without_batch_id"
           THEN \* the first INSERT INTO tasks names a column that is not there
                UNCHANGED <<tasks, queue, processing_key, background>>
           ELSE /\ tasks' = r.tasks
                /\ queue' = r.queue
                /\ processing_key' = r.redis.processing_key
                /\ background' = r.redis.background
        /\ UNCHANGED <<workers, reply, redis_up, worker_running, not_service>>

\* worker.main: a task is taken from the queue
WorkerGet(w) ==
    /\ worker_running /\ redis_up
    /\ workers[w].pc = "idle"
    /\ queue # <<>>
    /\ LET r == get_from_queue(queue, processing_key)
       IN  /\ queue' = r.queue
           /\ processing_key' = r.processing_key
           /\ workers' = [workers EXCEPT ![w] = [pc |-> "got", task |-> r.item.task_id]]
    /\ UNCHANGED <<schema, tasks, batches, background, reply, redis_up, worker_running,
                   not_service>>

\* worker.process_document_task: the status becomes 'processing'
WorkerStart(w) ==
    /\ workers[w].pc = "got"
    /\ tasks' = SetStatus(workers[w].task, "processing")
    /\ workers' = [workers EXCEPT ![w].pc = "processing"]
    /\ UNCHANGED <<schema, batches, queue, processing_key, background, reply, redis_up,
                   worker_running, not_service>>

\* worker.process_document_task: the document is processed, the result is
\* stored and the status becomes 'completed', or an exception makes it
\* 'failed'
WorkerFinish(w) ==
    /\ workers[w].pc = "processing"
    /\ LET t == workers[w].task
       IN  IF tasks[t].source_type \in {"file", "url"} /\ tasks[t].parses
           THEN /\ tasks' = SetStatus(t, "completed")
                /\ workers' = [workers EXCEPT ![w].pc = "committed"]
           ELSE /\ tasks' = SetStatus(t, "failed")
                /\ workers' = [workers EXCEPT ![w] = IdleWorker]
    /\ UNCHANGED <<schema, batches, queue, processing_key, background, reply, redis_up,
                   worker_running, not_service>>

\* worker.process_document_task after 'completed' is committed: the
\* document count and the removal of the uploaded file; worker.py's
\* update_document_count and the removal catch what they raise
WorkerAfterCommit(w, raises) ==
    /\ workers[w].pc = "committed"
    /\ workers' = [workers EXCEPT ![w] = IdleWorker]
    /\ UNCHANGED <<schema, tasks, batches, queue, processing_key, background, reply,
                   redis_up, worker_running, not_service>>

\* main.process_document, run as a background task: the status becomes
\* 'processing'
BackgroundStart(t) ==
    /\ [task |-> t, pc |-> "scheduled"] \in background
    /\ tasks' = SetStatus(t, "processing")
    /\ background' = (background \ {[task |-> t, pc |-> "scheduled"]})
                        \cup {[task |-> t, pc |-> "running"]}
    /\ UNCHANGED <<schema, batches, queue, processing_key, workers, reply, redis_up,
                   worker_running, not_service>>

\* the batches table after a task of batch b has been completed
BatchAfterCompletion(b) ==
    IF b = 0 THEN batches
    ELSE LET counted == [batches EXCEPT ![b].completed_tasks = @ + 1]
         IN  IF counted[b].total_tasks = counted[b].completed_tasks
             THEN [counted EXCEPT ![b].status = "completed"]
             ELSE counted

\* main.process_document: the document is parsed and the task and its
\* batch are updated and committed, or an exception makes the task 'failed'
BackgroundFinish(t) ==
    /\ [task |-> t, pc |-> "running"] \in background
    /\ IF tasks[t].parses
       THEN /\ tasks' = SetStatus(t, "completed")
            /\ batches' = BatchAfterCompletion(tasks[t].batch_id)
            /\ background' = (background \ {[task |-> t, pc |-> "running"]})
                                \cup {[task |-> t, pc |-> "committed"]}
       ELSE /\ tasks' = SetStatus(t, "failed")
            /\ background' = background \ {[task |-> t, pc |-> "running"]}
            /\ UNCHANGED batches
    /\ UNCHANGED <<schema, queue, processing_key, workers, reply, redis_up,
                   worker_running, not_service>>

\* main.process_document after the commit: the result is stored and the
\* document count updated inside the same try block; store_task_result
\* catches RedisError only and main.py's update_document_count catches
\* nothing, so what they raise (json.dumps on the result, sqlite3 on a
\* locked database file) reaches the except clause, which writes 'failed'
BackgroundAfterCommit(t, raises) ==
    /\ [task |-> t, pc |-> "committed"] \in background
    /\ background' = background \ {[task |-> t, pc |-> "committed"]}
    /\ tasks' = IF raises THEN SetStatus(t, "failed") ELSE tasks
    /\ UNCHANGED <<schema, batches, queue, processing_key, workers, reply, redis_up,
                   worker_running, not_service>>

\* GET /status/{task_id}
GetStatus(task_id, query_key, header_key) ==
    LET effective_api_key == IF query_key # NotSupplied THEN query_key ELSE header_key
        request == [task_id |-> task_id, api_key |-> effective_api_key,
                    in_query |-> (query_key # NotSupplied)]
    IN  /\ reply' =
              IF ~validate_api_key(effective_api_key)
              THEN [code |-> "401", request |-> request]
              ELSE IF schema # "with_batch_id"
              THEN \* SELECT status, batch_id fails
                   [code |-> "500", request |-> request]
              ELSE IF task_id \in DOMAIN tasks /\ tasks[task_id].api_key = query_key
              THEN [code |-> "200", request |-> request,
                    status |-> tasks[task_id].status]
              ELSE [code |-> "404", request |-> request]
        /\ UNCHANGED <<schema, tasks, batches, queue, processing_key, workers,
                       background, redis_up, worker_running, not_service>>

WorkerStep(w) ==
    \/ WorkerGet(w)
    \/ WorkerStart(w)
    \/ WorkerFinish(w)
    \/ \E raises \in BOOLEAN : WorkerAfterCommit(w, raises)

BackgroundStep(t) ==
    \/ BackgroundStart(t)
    \/ BackgroundFinish(t)
    \/ \E raises \in BOOLEAN : BackgroundAfterCommit(t, raises)

Requests ==
    \/ \E k \in ApiKeys, st \in SourceTypes, kind \in FileKinds, small, a \in BOOLEAN :
          PostParse(k, st, kind, small, a)
    \/ \E k \in ApiKeys, n \in 1..MaxTasks, a \in BOOLEAN, m \in Limits :
          \E files \in [1..n -> FileKinds] : PostBatch(k, files, a, m)

ServiceNext ==
    \/ Requests
    \/ \E w \in Workers : WorkerStep(w)
    \/ \E t \in 1..MaxTasks : BackgroundStep(t)

ServiceSpec == ServiceInit /\ [][ServiceNext]_vars

\* the worker loop never stops polling, and the API server runs every
\* background task it has scheduled
ServiceFairness ==
    /\ \A w \in Workers : WF_vars(WorkerStep(w))
    /\ \A t \in 1..MaxTasks : WF_vars(BackgroundStep(t))

FairServiceSpec == ServiceSpec /\ ServiceFairness

\* the status route on a server that runs its tasks in the background
StatusInit ==
    /\ ServiceInit
    /\ ~redis_up
    /\ ~worker_running

\* a request carries its key in the query string, in a header, or not at all
SuppliedKeys ==
    {<<k, NotSupplied>> : k \in ApiKeys} \cup {<<NotSupplied, k>> : k \in ApiKeys}
        \cup {<<NotSupplied, NotSupplied>>}

StatusNext ==
    \/ Requests
    \/ \E t \in 1..MaxTasks : BackgroundStep(t)
    \/ \E t \in 1..MaxTasks, k \in SuppliedKeys : GetStatus(t, k[1], k[2])

StatusSpec == StatusInit /\ [][StatusNext]_vars

----------------------------------------------------------------------------
(* The worker pool of distributed.py: create_task puts a pending task into *)
(* the store of the TaskManager; each worker_process loop lists the        *)
(* pending tasks, takes the first and gives it to TaskManager.process_task,*)
(* which marks it 'processing', calls the processor and marks it           *)
(* 'completed' or 'failed'.  The store is the one the workers share.       *)

MaxPoolTasks == 2

TaskTypes == {"parse", "unregistered"}

\* WorkerPool.task_processors after register_task_processor("parse", ...)
task_processors == {"parse"}

\* TaskManager.update_task
update_task(task_id, status) == [local_tasks EXCEPT ![task_id].status = status]

\* TaskManager.get_pending_tasks(task_type), as task ids in store order
get_pending_tasks(task_type) ==
    SelectSeq([i \in 1..Len(local_tasks) |-> i],
              LAMBDA i : local_tasks[i].status = "pending"
                            /\ local_tasks[i].type = task_type)

\* the list worker_process builds over the registered task types
pending_tasks == get_pending_tasks("parse")

PoolInit ==
    /\ EngineIdle
    /\ PipelineIdle
    /\ CallsIdle
    /\ ServiceIdle
    /\ PoolIdle

\* TaskManager.create_task; raises tells what the processor will do with
\* the task's params
create_task(task_type, raises) ==
    /\ Len(local_tasks) < MaxPoolTasks
    /\ local_tasks' = Append(local_tasks,
           [type |-> task_type, status |-> "pending", raises |-> raises, handed |-> 0])
    /\ UNCHANGED <<pool, not_pool>>

\* WorkerPool.worker_process: the pending tasks are listed and the first
\* is taken; with none pending the loop sleeps and lists again
TakePending(w) ==
    /\ pool[w].pc = "idle"
    /\ pending_tasks # <<>>
    /\ pool' = [pool EXCEPT ![w] = [pc |-> "taken", task |-> pending_tasks[1]]]
    /\ UNCHANGED <<local_tasks, not_pool>>

\* TaskManager.process_task: the task is read and marked 'processing',
\* whatever its status is by now
MarkProcessing(w) ==
    /\ pool[w].pc = "taken"
    /\ local_tasks' = update_task(pool[w].task, "processing")
    /\ pool' = [pool EXCEPT ![w].pc = "marked"]
    /\ UNCHANGED not_pool

\* TaskManager.process_task: the processor is called with the task's
\* params and the task is marked 'completed', or 'failed' if it raised
process_task(w) ==
    /\ pool[w].pc = "marked"
    /\ LET t == pool[w].task
       IN  local_tasks' =
               [local_tasks EXCEPT ![t].handed = @ + 1,
                                   ![t].status = IF local_tasks[t].raises
                                                 THEN "failed" ELSE "completed"]
    /\ pool' = [pool EXCEPT ![w] = IdlePoolWorker]
    /\ UNCHANGED not_pool

worker_process(w) == TakePending(w) \/ MarkProcessing(w) \/ process_task(w)

PoolNext ==
    \/ \E task_type \in TaskTypes, raises \in BOOLEAN : create_task(task_type, raises)
    \/ \E w \in PoolWorkers : worker_process(w)

PoolSpec == PoolInit /\ [][PoolNext]_vars

----------------------------------------------------------------------------
(* Properties.                                                             *)

Done == pc = "done"
Improved == version = "table_parser_improved"
HasError(r) == "error" \in DOMAIN r

\* the result has the data field and at least one record in it
CarriesData(r) == "data" \in DOMAIN r /\ r.data # <<>>

\* C1: every result of parse_text_table or parse_html_table of
\* table_parser_improved that carries data has records whose key set is the
\* set of headers, num_rows equal to the number of records and num_cols
\* equal to the number of headers.
C1_RowHeaderConsistency ==
    (Done /\ Improved /\ CarriesData(result)) =>
        /\ \A i \in 1..Len(result.data) :
              DOMAIN result.data[i] = Range(result.headers)
        /\ result.num_rows = Len(result.data)
        /\ result.num_cols = Len(result.headers)

C1_Witness ==
    /\ Done /\ Improved /\ invoked = <<"financial">>
    /\ CarriesData(result)
    /\ Len(result.headers) >= 2
    /\ result.num_rows # result.num_cols

\* the cells of a candidate row as the normalizer should leave them
Normalized(cells, n) ==
    [j \in 1..n |-> IF j <= Len(cells) THEN cells[j] ELSE ""]

\* C2: in every parser normalization builds exactly one record per
\* candidate data row: a short row is padded with empty strings to the n
\* headers, a long row is truncated to its first n cells, no candidate row
\* is lost because of its width.
C2_OneRecordPerCandidateRow ==
    (Done /\ ~HasError(result) /\ result.headers # <<>>) =>
        /\ Len(result.data) = Len(candidates)
        /\ ~block.is_markup =>
              \A i \in 1..Len(candidates) :
                  result.data[i] =
                      ZipDict(result.headers,
                              Normalized(candidates[i], Len(result.headers)))

\* C3: parse_text_table and parse_html_table of both revisions return a
\* value of type 'Table' for every input, and a value with an error field
\* also has the headers and data fields.
C3_ErrorResultWellFormed ==
    Done =>
        /\ result.type = "Table"
        /\ HasError(result) =>
              "headers" \in DOMAIN result /\ "data" \in DOMAIN result

\* C4: parse_text_table of table_parser_improved invokes exactly one
\* sub-parser, the first match in the order markdown, financial,
\* space-separated, fixed-width, and returns that parser's result unchanged.
C4_DispatchPriority ==
    (Done /\ Improved /\ ~block.is_markup) =>
        LET t == block.text
        IN  /\ Len(invoked) = 1
            /\ IsMarkdownTable(t) => invoked[1] = "markdown"
            /\ invoked[1] = "financial" =>
                  IsFinancialTable(t) /\ ~IsMarkdownTable(t)
            /\ (IsFinancialTable(t) /\ ~IsMarkdownTable(t)) =>
                  invoked[1] = "financial"
            /\ invoked[1] = "space_separated" <=>
                  /\ IsSpaceSeparatedTable(t)
                  /\ ~IsMarkdownTable(t) /\ ~IsFinancialTable(t)
            /\ invoked[1] = "fixed_width" <=>
                  /\ ~IsMarkdownTable(t) /\ ~IsFinancialTable(t)
                  /\ ~IsSpaceSeparatedTable(t)
            /\ invoked[1] = "markdown" => result = parse_markdown_table(t).ret
            /\ invoked[1] = "financial" => result = parse_financial_table(t).ret
            /\ invoked[1] = "space_separated" =>
                  result = parse_space_separated_table(t).ret
            /\ invoked[1] = "fixed_width" =>
                  result = parse_fixed_width_table_improved(t).ret

\* a block matching the markdown, the financial and the space-separated
\* probe at once, routed to the markdown parser
C4_Witness ==
    /\ Done /\ Improved /\ ~block.is_markup
    /\ IsMarkdownTable(block.text)
    /\ IsFinancialTable(block.text)
    /\ IsSpaceSeparatedTable(block.text)
    /\ invoked = <<"markdown">>

\* a line made only of dashes and pipes, optionally with spaces
IsRuleRow(line) ==
    /\ AllIn(line, {"-", "|", " "})
    /\ Contains(line, "-")

HasRuleRow(text) ==
    \E i \in 1..Len(Split(text, "\n")) : IsRuleRow(Split(text, "\n")[i])

\* C5: parse_text_table routes to the markdown parser every block that
\* contains a pipe character and has a rule row.
C5_RuleRowRoutesToMarkdown ==
    (Done /\ ~block.is_markup /\ Contains(block.text, "|")
          /\ HasRuleRow(block.text)) =>
        invoked = <<"markdown">>

\* the record a row of distinct column names and its cells should give
ExpectedRecord(names, cells) ==
    [h \in Range(names) |-> cells[CHOOSE j \in 1..Len(names) : names[j] = h]]

ExpectedData(t) == [i \in 1..Len(t.rows) |-> ExpectedRecord(t.names, t.rows[i])]

ReturnsTable(r, names, data) ==
    /\ ~HasError(r)
    /\ "headers" \in DOMAIN r /\ r.headers = names
    /\ "data" \in DOMAIN r /\ r.data = data

\* C6: markdown round trip: a header line with cells h1..hn, a separator
\* line of the form '| ---- | --- |' and k data lines of n cells give
\* headers [h1..hn], k records of the trimmed cells in order, no error; the
\* specification's example gives ['Name','Age'] and {Name: John, Age: 30}.
C6_MarkdownRoundTrip ==
    (Done /\ Improved /\ ~block.is_markup) =>
        /\ \A t \in MarkdownTables :
              block.text = RenderMarkdown(t) =>
                  ReturnsTable(result, t.names, ExpectedData(t))
        /\ block.text = SpecMarkdownExample =>
              ReturnsTable(result, <<"Name", "Age">>,
                           <<[Name |-> "John", Age |-> "30"]>>)

\* C7: a header line of n column names ('Total' among them) separated by
\* two or more spaces, a rule line of dashes and k data lines of n cells
\* with '$' amounts give, in table_parser_improved, n headers and k rows of
\* trimmed cells, the rule line not being a row; the specification's
\* example gives 4 headers and one row whose Item cell is 'Widget A'.
C7_LedgerWithRuleLine ==
    (Done /\ Improved /\ ~block.is_markup) =>
        /\ \A t \in LedgerTables, g \in Gaps, ind \in Indents :
              block.text = RenderLedger(t, g, ind) =>
                  ReturnsTable(result, t.names, ExpectedData(t))
        /\ block.text = SpecFixedWidthExample =>
              /\ ReturnsTable(result,
                              <<"Item", "Quantity", "Unit Price", "Total">>,
                              result.data)
              /\ Len(result.data) = 1
              /\ result.data[1]["Item"] = "Widget A"
              /\ result.num_rows = 1 /\ result.num_cols = 4

C7_Witness ==
    /\ Done /\ Improved /\ ~block.is_markup
    /\ \E t \in LedgerTables, g \in Gaps, ind \in Indents :
          /\ block.text = RenderLedger(t, g, ind)
          /\ Len(t.names) = 3 /\ Len(t.rows) = 2
          /\ result.data = ExpectedData(t)
    /\ invoked = <<"financial">>

BeginsWithTotal(line) == StartsWith(line, "Total:")

C9_EmptyInput ==
    (Done /\ ~block.is_markup /\ Strip(block.text) = "") =>
        /\ "headers" \in DOMAIN result /\ result.headers = <<>>
        /\ "data" \in DOMAIN result /\ result.data = <<>>
        /\ HasError(result) /\ result.error # ""

\* blank lines and a run of spaces, which the space-separated probe accepts
C9_Witness ==
    /\ Done /\ Improved /\ ~block.is_markup
    /\ block.text # "" /\ Strip(block.text) = ""
    /\ invoked = <<"space_separated">>
    /\ HasError(result) /\ result.error = "Empty table"

\* the header row of a fragment: the <thead> row if there is a <thead>,
\* otherwise the first row
MarkupHeaderRow(m) == (m.thead \o m.body)[1]
MarkupFurtherRows(m) == Tail(m.thead \o m.body)

\* a header row of n >= 1 cells (<th> cells in a <thead>) followed by
\* k >= 1 rows of 1 to n cells each
IsRegularMarkup(m) ==
    /\ m.thead \o m.body # <<>>
    /\ MarkupHeaderRow(m) # <<>>
    /\ m.has_thead =>
          /\ Len(m.thead) = 1
          /\ \A j \in 1..Len(m.thead[1]) : m.thead[1][j].tag = "th"
    /\ MarkupFurtherRows(m) # <<>>
    /\ \A i \in 1..Len(MarkupFurtherRows(m)) :
          /\ Len(MarkupFurtherRows(m)[i]) >= 1
          /\ Len(MarkupFurtherRows(m)[i]) <= Len(MarkupHeaderRow(m))

\* C10: for a markup fragment with a header row of n cells followed by k
\* rows of 1 to n cells, parse_html_table returns the n trimmed header
\* texts and k records, in document order, of the rows' trimmed cell texts.
C10_MarkupRowsReturned ==
    (Done /\ block.is_markup /\ IsRegularMarkup(block.html)) =>
        LET names == CellTexts(MarkupHeaderRow(block.html))
            further == MarkupFurtherRows(block.html)
        IN  /\ "headers" \in DOMAIN result /\ result.headers = names
            /\ "data" \in DOMAIN result /\ Len(result.data) = Len(further)
            /\ \A i \in 1..Len(further) :
                  result.data[i] =
                      ZipDict(names, Normalized(CellTexts(further[i]), Len(names)))

\* C11: a markdown block with a header line and a separator line but no
\* data line gives headers equal to the header cells, data = [] and no
\* error field.
C11_EmptyMarkdownTableIsValid ==
    (Done /\ ~block.is_markup /\ invoked = <<"markdown">>
          /\ Len(NonBlankLines(block.text)) = 2
          /\ MarkdownCells(NonBlankLines(block.text)[1]) # <<>>
          /\ IsRuleRow(NonBlankLines(block.text)[2])) =>
        ReturnsTable(result, MarkdownCells(NonBlankLines(block.text)[1]), <<>>)

\* C12: in the document pipeline, when parse_text_table returns a result
\* with an error field for a suspected table, the element emitted is the
\* plain text element {type, text} and not the error-bearing Table value.
C12_ErrorFallsBackToText ==
    (Done /\ IsSuspectedTable(el_type, block.text) /\ HasError(result)) =>
        element = TextElement(el_type, block.text)

\* C13: a block matching neither the markdown nor the financial probe, with
\* at least two lines and a line containing a run of two or more spaces, is
\* routed by parse_text_table to the space-separated parser.
C13_TwoLinesRouteToSpaceSeparated ==
    (Done /\ Improved /\ ~block.is_markup
          /\ ~IsMarkdownTable(block.text) /\ ~IsFinancialTable(block.text)
          /\ Len(NonBlankLines(block.text)) >= 2
          /\ \E i \in 1..Len(Split(block.text, "\n")) :
                Contains(Split(block.text, "\n")[i], "  ")) =>
        invoked = <<"space_separated">>

\* C14: the error field is present only when no usable data was produced:
\* a result with at least one data record carries no error, and a result
\* with an error has no data records.
C14_ErrorOnlyWithoutData ==
    Done =>
        /\ CarriesData(result) => ~HasError(result)
        /\ HasError(result) => ("data" \in DOMAIN result => result.data = <<>>)

\* a table whose second row had to be padded, returned without an error
C14_Witness ==
    /\ Done /\ Improved /\ invoked = <<"space_separated">>
    /\ CarriesData(result) /\ Len(result.data) = 2
    /\ Len(candidates[2]) < Len(result.headers)
    /\ ~HasError(result)

AcceptedByParse(t) ==
    t \in DOMAIN tasks /\ tasks[t].accepted /\ tasks[t].batch_id = 0

HasStatus(t, statuses) == t \in DOMAIN tasks /\ tasks[t].status \in statuses

\* C17: every task POST /parse accepts for asynchronous processing
\* eventually reaches a terminal status, 'completed' or 'failed', and it
\* eventually reaches 'completed' when a worker is running and the document
\* can be parsed.
C17_AcceptedTasksTerminate ==
    \A t \in 1..MaxTasks :
        /\ AcceptedByParse(t) ~> HasStatus(t, Terminal)
        /\ (AcceptedByParse(t) /\ worker_running /\ tasks[t].parses)
              ~> HasStatus(t, {"completed"})

\* C18: GET /status returns the status of a task to a request that
\* authenticates with the key the task was created under, in the query
\* string or in a header alone, and answers 'Task not found' to a request
\* that authenticates with another valid key.
C18_StatusForOwnerOnly ==
    [][ (reply' # reply /\ reply'.request.task_id \in DOMAIN tasks
            /\ validate_api_key(reply'.request.api_key)) =>
          LET t == reply'.request.task_id
          IN  IF tasks[t].api_key = reply'.request.api_key
              THEN reply'.code = "200" /\ reply'.status = tasks[t].status
              ELSE reply'.code = "404" ]_vars

BeingProcessed == {w \in Workers : workers[w].pc = "processing"}

\* C19: when the tasks of the queue were enqueued with max_concurrent = M,
\* the workers never process more than M of them at the same time.
C19_AtMostMaxConcurrent ==
    \A m \in Limits :
        (\A t \in DOMAIN tasks : tasks[t].limit = m) =>
            Cardinality(BeingProcessed) <= m

\* the lines the older fixed-width parser works on, and its separator lines
FixedWidthLines == NonBlankLines(block.text)
FixedWidthSeparators ==
    {i \in 1..Len(FixedWidthLines) : IsSeparatorLine(FixedWidthLines[i])}
FirstSeparatorOffsets ==
    SeparatorBoundaries(FixedWidthLines[Min(FixedWidthSeparators)], 0, FALSE)
FixedWidthHeaderIdx == IF Min(FixedWidthSeparators) = 1 THEN 2 ELSE 1
FixedWidthDataLines ==
    SelectSeq([i \in 1..Len(FixedWidthLines) |-> i],
        LAMBDA i : i \notin FixedWidthSeparators /\ i # FixedWidthHeaderIdx)

\* the j-th cell runs from offset b[j] to the next offset, the last one to
\* the end of the line
CellsAtOffsets(line, b) ==
    [j \in 1..Len(b) |->
        Strip(Slice(line, b[j], IF j < Len(b) THEN b[j + 1] ELSE Len(line)))]

\* C20: in the older _parse_fixed_width_table, when the first separator
\* line has m runs of rule characters at offsets b1 < ... < bm, the header
\* line and every data line are cut into exactly m cells at those offsets;
\* the result has m headers and one row per data line.
C20_CutAtSeparatorOffsets ==
    (Done /\ version = "table_parser" /\ invoked = <<"fixed_width">>
          /\ FixedWidthSeparators # {}
          /\ FixedWidthHeaderIdx <= Len(FixedWidthLines)
          /\ FirstSeparatorOffsets # <<>>) =>
        LET b == FirstSeparatorOffsets
            names == CellsAtOffsets(FixedWidthLines[FixedWidthHeaderIdx], b)
        IN  /\ ~HasError(result) \/ FixedWidthDataLines = <<>>
            /\ "headers" \in DOMAIN result /\ result.headers = names
            /\ FixedWidthDataLines # <<>> =>
                  /\ Len(result.data) = Len(FixedWidthDataLines)
                  /\ \A k \in 1..Len(FixedWidthDataLines) :
                        result.data[k] =
                            ZipDict(names,
                                CellsAtOffsets(FixedWidthLines[FixedWidthDataLines[k]], b))

\* the header line the separator rule names: the line before the first
\* separator, or the line after it when the separator opens the block
HeaderBesideSeparator(separator_indices) ==
    IF Min(separator_indices) = 1 THEN 2 ELSE Min(separator_indices) - 1

FinancialSeparators ==
    {i \in 1..Len(FixedWidthLines) : IsSeparatorFinancial(FixedWidthLines[i])}

\* the lines that are neither separators nor the header the rule names
LinesBesideHeader(separator_indices) ==
    SelectSeq([i \in 1..Len(FixedWidthLines) |-> i],
        LAMBDA i : i \notin separator_indices
                   /\ i # HeaderBesideSeparator(separator_indices))

\* C21: when separator lines exist, the header is the line immediately
\* before the first separator, or the line immediately after it when the
\* separator is the first line; every other non-separator line is a data
\* line.  For the older _parse_fixed_width_table and for the separator
\* branch of _parse_financial_table.
C21_HeaderBesideFirstSeparator ==
    /\ (Done /\ version = "table_parser" /\ invoked = <<"fixed_width">>
             /\ FixedWidthSeparators # {}
             /\ HeaderBesideSeparator(FixedWidthSeparators) <= Len(FixedWidthLines)) =>
          LET line == FixedWidthLines[HeaderBesideSeparator(FixedWidthSeparators)]
          IN  /\ "headers" \in DOMAIN result
              /\ result.headers =
                    IF FirstSeparatorOffsets # <<>>
                    THEN CutAtSeparator(line, FirstSeparatorOffsets, FALSE)
                    ELSE SplitWhitespace(line)
    /\ (Done /\ Improved /\ invoked = <<"financial">>
             /\ FinancialSeparators # {}
             /\ HeaderBesideSeparator(FinancialSeparators) <= Len(FixedWidthLines)) =>
          /\ result.headers =
                ReSplit2(Strip(FixedWidthLines[HeaderBesideSeparator(FinancialSeparators)]))
          /\ \A k \in 1..Len(row_src) :
                \E i \in 1..Len(LinesBesideHeader(FinancialSeparators)) :
                    row_src[k] = FixedWidthLines[LinesBesideHeader(FinancialSeparators)[i]]

\* the segments of a line split on '|', trimmed, without the empty
\* segments at its two ends
RECURSIVE DropLeadingEmpty(_)
DropLeadingEmpty(cells) ==
    IF cells # <<>> /\ Head(cells) = "" THEN DropLeadingEmpty(Tail(cells)) ELSE cells

RECURSIVE DropTrailingEmpty(_)
DropTrailingEmpty(cells) ==
    IF cells # <<>> /\ cells[Len(cells)] = ""
    THEN DropTrailingEmpty(SubSeq(cells, 1, Len(cells) - 1)) ELSE cells

CellsBetweenPipes(line) ==
    LET segments == Split(line, "|")
    IN  DropTrailingEmpty(DropLeadingEmpty([i \in 1..Len(segments) |-> Strip(segments[i])]))

\* C22: _parse_markdown_table removes only the empty leading and trailing
\* segments of a line split on '|': an empty interior cell stays as '', so
\* the i-th cell of a data line is the value of the i-th header.
C22_InteriorEmptyCellKept ==
    (Done /\ Improved /\ invoked = <<"markdown">> /\ CarriesData(result)) =>
        \A k \in 1..Len(result.data) :
            result.data[k] =
                ZipDict(result.headers,
                        PadOrTruncate(CellsBetweenPipes(row_src[k]), Len(result.headers)))

HeaderWordLines == {i \in 1..Len(FixedWidthLines) : IsHeaderWord(FixedWidthLines[i])}

\* C23: _parse_financial_table takes as header the first line containing
\* 'Item', 'Description' or 'Product' whenever the block has such a line,
\* also when the block contains rule lines.
C23_HeaderWordLinePreferred ==
    (Done /\ Improved /\ invoked = <<"financial">> /\ HeaderWordLines # {}) =>
        result.headers = ReSplit2(Strip(FixedWidthLines[Min(HeaderWordLines)]))

FinancialHeaderIdx ==
    IF FinancialSeparators # {}
    THEN (IF Min(FinancialSeparators) = 1 THEN 2 ELSE 1)
    ELSE IF HeaderWordLines # {} THEN Min(HeaderWordLines) ELSE 1

\* the lines after the header that are not rule lines and do not begin
\* with 'Total' or 'Subtotal'
FinancialDataLines ==
    LET idx == SelectSeq([i \in 1..Len(FixedWidthLines) |-> i],
                   LAMBDA i : /\ i > FinancialHeaderIdx
                              /\ i \notin FinancialSeparators
                              /\ ~StartsWith(Strip(FixedWidthLines[i]), "Total")
                              /\ ~StartsWith(Strip(FixedWidthLines[i]), "Subtotal"))
    IN  [k \in 1..Len(idx) |-> FixedWidthLines[idx[k]]]

\* C25: the rows returned by _parse_financial_table contain no line that
\* begins with 'Total' or 'Subtotal', and every other data line (a line
\* after the header that is not a rule line) yields exactly one row, in
\* input order, split on runs of two or more spaces and padded or
\* truncated to the header count.
C25_FinancialRows ==
    (Done /\ Improved /\ invoked = <<"financial">>) =>
        /\ "data" \in DOMAIN result /\ "headers" \in DOMAIN result
        /\ Len(result.data) = Len(FinancialDataLines)
        /\ \A k \in 1..Len(FinancialDataLines) :
              /\ row_src[k] = FinancialDataLines[k]
              /\ result.data[k] =
                    ZipDict(result.headers,
                            PadOrTruncate(ReSplit2(Strip(FinancialDataLines[k])),
                                          Len(result.headers)))

\* a ledger of two data lines and a Total line, one data line longer than
\* the header and cut to it
C25_Witness ==
    /\ Done /\ Improved /\ invoked = <<"financial">>
    /\ Len(result.data) = 2
    /\ row_src[1] # row_src[2]
    /\ \E k \in 1..2 : Len(candidates[k]) > Len(result.headers)
    /\ \E i \in 1..Len(FixedWidthLines) :
          i > FinancialHeaderIdx /\ StartsWith(Strip(FixedWidthLines[i]), "Total")

\* C26: _parse_space_separated_table on a block with L >= 2 non-blank
\* lines returns headers equal to the first line split on runs of two or
\* more whitespace characters, and exactly L-1 rows in input order, each
\* the line split the same way and padded with '' or truncated to the
\* header count.
C26_SpaceSeparatedRows ==
    (Done /\ Improved /\ invoked = <<"space_separated">>
          /\ Len(FixedWidthLines) >= 2) =>
        /\ ~HasError(result)
        /\ result.headers = ReSplit2(Strip(FixedWidthLines[1]))
        /\ Len(result.data) = Len(FixedWidthLines) - 1
        /\ \A k \in 1..(Len(FixedWidthLines) - 1) :
              /\ row_src[k] = FixedWidthLines[k + 1]
              /\ result.data[k] =
                    ZipDict(result.headers,
                            PadOrTruncate(ReSplit2(Strip(FixedWidthLines[k + 1])),
                                          Len(result.headers)))

\* a block of two non-blank lines, and one of three whose rows differ in
\* length from the header
C26_Witness ==
    /\ Done /\ Improved /\ invoked = <<"space_separated">>
    /\ \/ /\ Len(FixedWidthLines) = 2
          /\ Len(result.data) = 1
       \/ /\ Len(FixedWidthLines) = 3
          /\ Len(result.data) = 2
          /\ Len(candidates[1]) > Len(result.headers)
          /\ Len(candidates[2]) < Len(result.headers)

\* a line composed only of '-', '=', '+', '|'
IsRuleLine(line) == Strip(line) # "" /\ AllIn(Strip(line), RuleChars)

\* C27: for every block given to parse_text_table (table_parser_improved)
\* a rule line never appears in the output, neither as a data record nor as
\* the header, whichever parser the dispatcher selects.
C27_RuleLinesNotInOutput ==
    (Done /\ Improved /\ ~block.is_markup) =>
        /\ \A k \in 1..Len(row_src) : ~IsRuleLine(row_src[k])
        /\ ("headers" \in DOMAIN result /\ result.headers # <<>>) =>
              \E j \in 1..Len(result.headers) : ~IsRuleLine(result.headers[j])

\* the tasks of batch b that have the status 'completed'
CompletedOf(b) ==
    {t \in DOMAIN tasks : tasks[t].batch_id = b /\ tasks[t].status = "completed"}

\* a task that has a terminal status keeps it
TerminalKept ==
    \A t \in DOMAIN tasks :
        tasks[t].status \in Terminal => tasks'[t].status = tasks[t].status

\* the counter of a batch is not above the number of its completed tasks
CountsOnlyCompleted ==
    \A b \in DOMAIN batches : batches[b].completed_tasks <= Cardinality(CompletedOf(b))

\* C28: the statuses 'completed' and 'failed' are absorbing: once
\* process_document or process_document_task has committed 'completed' for
\* a task, no later step of the same run (storing the result, updating the
\* document count, cleaning up) changes it to 'failed', and the
\* completed_tasks counter of a batch counts only tasks whose status is
\* 'completed'.
C28_TerminalStatusAbsorbing == [][TerminalKept]_vars /\ []CountsOnlyCompleted

\* the same for the worker of worker.py alone: what follows the commit of
\* 'completed' there is guarded
WorkerKeepsCompleted ==
    [][\A w \in Workers :
          workers[w].pc = "committed" =>
              tasks'[workers[w].task].status = "completed"]_vars
\* the tasks of batch b
TasksOf(b) == {t \in DOMAIN tasks : tasks[t].batch_id = b}

\* every task of batch b is there and has a terminal status
AllTerminal(b) ==
    /\ b \in DOMAIN batches
    /\ Cardinality(TasksOf(b)) = batches[b].total_tasks
    /\ \A t \in TasksOf(b) : tasks[t].status \in Terminal

\* the counters of the batches table
BatchCounters ==
    \A b \in DOMAIN batches :
        /\ batches[b].completed_tasks <= batches[b].total_tasks
        /\ batches[b].status = "completed" =>
               batches[b].completed_tasks = batches[b].total_tasks

\* C29: every batch created by POST /batch eventually leaves the status
\* 'processing' for 'completed' once all of its tasks have reached a
\* terminal status, on the background-task path and on the worker path; at
\* all times completed_tasks <= total_tasks, and the batch status is
\* 'completed' only if completed_tasks equals total_tasks.
C29_BatchEventuallyCompleted ==
    /\ \A b \in 1..MaxBatches :
          AllTerminal(b) ~> (b \in DOMAIN batches /\ batches[b].status = "completed")
    /\ []BatchCounters
\* C30: in a WorkerPool with several workers sharing one TaskManager store,
\* each pending task is handed to its processor at most once: no
\* interleaving of the worker_process loops lets two workers both read the
\* same task as 'pending' and both run process_task on it.
C30_HandedAtMostOnce ==
    \A t \in DOMAIN local_tasks : local_tasks[t].handed <= 1
====
